---------------------------- MODULE Spec2Model ----------------------------
(***************************************************************************)
(* Triggerfish: trigger-character completion over a shared symbol index.    *)
(*                                                                         *)
(* Strings are sequences of one-character strings, so that rfind, slicing, *)
(* isspace and endswith are computed position by position.  Offsets are    *)
(* Python's (0-based); TLA+ sequences are 1-based, hence the +1 below.     *)
(***************************************************************************)
EXTENDS Integers, Sequences, FiniteSets, TLC

VARIABLES
    index,           \* SymbolIndex: the symbols, in insertion order
    workspace_root,  \* TriggerfishLanguageServer._workspace_root
    config,          \* TriggerfishConfig (max_completion_items, min_fuzzy_score)
    call,            \* the handler / index operation executed last, with its inputs
    ret,             \* what that operation returned
    pc               \* where the handler in progress stands; "idle" between handlers

vars == <<index, workspace_root, config, call, ret, pc>>

(***************************************************************************)
(* Bounds of the model.                                                    *)
(***************************************************************************)
MaxLineLen == 3
MaxTags == 1
MaxItems == 2
MaxIndexLen == 3
MaxScore == 102

None == "None"

Min(a, b) == IF a <= b THEN a ELSE b

SeqsUpTo(S, n) == UNION {[1..k -> S] : k \in 0..n}

\* the members of a sequence
Range(s) == {s[i] : i \in 1..Len(s)}

\* s[:n]
Take(s, n) == SubSeq(s, 1, Min(n, Len(s)))

(***************************************************************************)
(* Python string primitives used by the handlers.                          *)
(***************************************************************************)
\* line.rfind(ch, start, end): highest 0-based i, start <= i < min(end, len), with
\* line[i] = ch; -1 when there is none
RFind(line, ch, start, end) ==
    LET hits == {i \in start..(Min(end, Len(line)) - 1) : line[i + 1] = ch}
    IN  IF hits = {} THEN -1 ELSE CHOOSE i \in hits : \A j \in hits : j <= i

\* line[a:b] for 0 <= a
Slice(line, a, b) == SubSeq(line, a + 1, Min(b, Len(line)))

\* char.isspace()
IsSpace(c) == c \in {" ", "\t", "\n"}

\* s.endswith(suffix)
EndsWith(s, suffix) ==
    /\ Len(suffix) <= Len(s)
    /\ SubSeq(s, Len(s) - Len(suffix) + 1, Len(s)) = suffix

\* c.lower() on the letters the model uses
Lower(c) == CASE c = "A" -> "a" [] c = "B" -> "b" [] OTHER -> c

(***************************************************************************)
(* Symbols and the symbol index.                                           *)
(***************************************************************************)
SymbolKinds == <<"FILE", "CLASS", "METHOD", "FUNCTION", "VARIABLE">>

Symbol(name, kind, file_path, line, scope, language) ==
    [name |-> name, kind |-> kind, file_path |-> file_path, line |-> line,
     scope |-> scope, language |-> language]

\* SymbolIndex(): created empty
EmptyIndex == <<>>

\* get_symbols(kind): the symbols of one kind (all of them for None), in insertion order
GetSymbols(idx, kind) ==
    IF kind = None THEN idx ELSE SelectSeq(idx, LAMBDA s : s.kind = kind)

\* add_symbols that puts the new symbols in front of the stored ones
AddSymbolsMutPrepend(idx, symbols) == symbols \o idx

\* add_symbols(symbols): appends, keeping the order of insertion
AddSymbols(idx, symbols) == idx \o symbols

\* update_file that takes an empty sequence for "nothing to do"
UpdateFileMutKeepOld(idx, path, symbols) ==
    IF symbols = <<>> THEN idx
    ELSE AddSymbols(SelectSeq(idx, LAMBDA s : s.file_path # path), symbols)

\* update_file(path, symbols): the symbols attributed to path are replaced by symbols

UpdateFile(idx, path, symbols) ==
    AddSymbols(SelectSeq(idx, LAMBDA s : s.file_path # path), symbols)

(***************************************************************************)
(* Fuzzy matching: a name matches a query when the query's characters      *)
(* occur in it, case-insensitively, as a subsequence.                      *)
(***************************************************************************)
\* the leftmost positions in name matching query[i..], searching from name[j]; <<0>>
\* when there is no match
RECURSIVE MatchFrom(_, _, _, _)
MatchFrom(query, name, i, j) ==
    IF i > Len(query) THEN <<>>
    ELSE IF j > Len(name) THEN <<0>>
    ELSE IF Lower(name[j]) = Lower(query[i])
         THEN LET rest == MatchFrom(query, name, i + 1, j + 1)
              IN  IF rest = <<0>> THEN <<0>> ELSE <<j>> \o rest
         ELSE MatchFrom(query, name, i, j + 1)

IsMatch(query, name) == MatchFrom(query, name, 1, 1) # <<0>>

IsBoundary(name, p) ==
    \/ p = 1
    \/ name[p - 1] \in {"_", ".", "/"}
    \/ (Lower(name[p - 1]) = name[p - 1] /\ Lower(name[p]) # name[p])

\* the score of name for a non-empty query: prefix match, contiguous runs, a match
\* starting at a word boundary, compactness, in decreasing weight; 0 for no match
PrefixWeight == 60
RunWeight == 20
BoundaryWeight == 10
CompactWeight == 10

FuzzyScore(query, name) ==
    LET pos == MatchFrom(query, name, 1, 1)
    IN  IF pos = <<0>> \/ pos = <<>> THEN 0
        ELSE LET n == Len(pos)
                 runs == 1 + Cardinality({k \in 2..n : pos[k] # pos[k - 1] + 1})
                 span == pos[n] - pos[1] + 1
             IN  (IF pos[1] = 1 /\ runs = 1 THEN PrefixWeight ELSE 0)
                 + (RunWeight \div runs)
                 + (IF IsBoundary(name, pos[1]) THEN BoundaryWeight ELSE 0)
                 + ((CompactWeight * n) \div span)

\* list.sort(key=score, reverse=True): stable, so equal scores keep their order
RECURSIVE InsertByScore(_, _)
InsertByScore(sorted, m) ==
    IF sorted = <<>> THEN <<m>>
    ELSE IF sorted[Len(sorted)].score >= m.score THEN Append(sorted, m)
    ELSE Append(InsertByScore(SubSeq(sorted, 1, Len(sorted) - 1), m), sorted[Len(sorted)])

RECURSIVE SortByScoreDesc(_)
SortByScoreDesc(ms) ==
    IF ms = <<>> THEN <<>>
    ELSE InsertByScore(SortByScoreDesc(SubSeq(ms, 1, Len(ms) - 1)), ms[Len(ms)])

Scored(symbols, query) ==
    [i \in 1..Len(symbols) |-> [symbol |-> symbols[i], score |-> FuzzyScore(query, symbols[i].name)]]

\* fuzzy_search that leaves the matches in insertion order
FuzzySearchMutUnsorted(idx, query, kind, limit, min_score) ==
    Take(SelectSeq(Scored(GetSymbols(idx, kind), query),
                   LAMBDA m : IsMatch(query, m.symbol.name) /\ m.score >= min_score),
         limit)

\* fuzzy_search(query, kind, limit, min_score)
FuzzySearch(idx, query, kind, limit, min_score) ==
    Take(SortByScoreDesc(SelectSeq(Scored(GetSymbols(idx, kind), query),
                                   LAMBDA m : IsMatch(query, m.symbol.name) /\ m.score >= min_score)),
         limit)

(***************************************************************************)
(* CompletionHandler: one engine per trigger character.                    *)
(***************************************************************************)
\* should_trigger that searches the whole line: rfind(trigger)
ShouldTriggerMutWholeLine(h, line, character) ==
    RFind(line, h.trigger, 0, Len(line)) # -1

\* should_trigger(line, character)
ShouldTrigger(h, line, character) ==
    RFind(line, h.trigger, 0, character) # -1

\* parse_query(line, character): [some |-> FALSE] is Python's None
NoQuery == [some |-> FALSE, query |-> <<>>]
SomeQuery(q) == [some |-> TRUE, query |-> q]

\* parse_query without the isspace test
ParseQueryMutNoSpaceCheck(h, line, character) ==
    LET trigger_index == RFind(line, h.trigger, 0, character)
    IN  IF trigger_index = -1 THEN NoQuery
        ELSE SomeQuery(Slice(line, trigger_index + 1, character))

\* parse_query that gives no query when the cursor stands past the end of the line
ParseQueryMutStrictCursor(h, line, character) ==
    LET trigger_index == RFind(line, h.trigger, 0, character)
        query == Slice(line, trigger_index + 1, character)
    IN  IF trigger_index = -1 \/ character > Len(line) THEN NoQuery
        ELSE IF query = <<>> THEN SomeQuery(<<>>)
        ELSE IF \E i \in 1..Len(query) : IsSpace(query[i]) THEN NoQuery
        ELSE SomeQuery(query)

\* parse_query(line, character)
ParseQuery(h, line, character) ==
    LET trigger_index == RFind(line, h.trigger, 0, character)
        query == Slice(line, trigger_index + 1, character)
    IN  IF trigger_index = -1 THEN NoQuery
        ELSE IF query = <<>> THEN SomeQuery(<<>>)
        ELSE IF \E i \in 1..Len(query) : IsSpace(query[i]) THEN NoQuery
        ELSE SomeQuery(query)

\* the symbols of the engine's kinds, kind after kind; its first n kinds
RECURSIVE AllOfKinds(_, _, _)
AllOfKinds(idx, kinds, n) ==
    IF n = 0 THEN <<>>
    ELSE AllOfKinds(idx, kinds, n - 1)
         \o [i \in 1..Len(GetSymbols(idx, kinds[n])) |->
                [symbol |-> GetSymbols(idx, kinds[n])[i], score |-> 0]]

\* the search of the kinds that gives every kind an equal share of
\* max_completion_items
RECURSIVE SearchKindsMutQuota(_, _, _, _, _)
SearchKindsMutQuota(idx, cfg, kinds, query, n) ==
    IF n = 0 THEN <<>>
    ELSE SearchKindsMutQuota(idx, cfg, kinds, query, n - 1)
         \o FuzzySearch(idx, query, kinds[n],
                        (cfg.max_completion_items + Len(kinds) - 1) \div Len(kinds),
                        cfg.min_fuzzy_score)

\* fuzzy_search of each of the engine's kinds, concatenated; its first n kinds
RECURSIVE SearchKinds(_, _, _, _, _)
SearchKinds(idx, cfg, kinds, query, n) ==
    IF n = 0 THEN <<>>
    ELSE SearchKinds(idx, cfg, kinds, query, n - 1)
         \o FuzzySearch(idx, query, kinds[n], cfg.max_completion_items, cfg.min_fuzzy_score)

\* get_completions without the sort of the concatenated matches
GetMatchesMutNoSort(h, idx, cfg, line, character) ==
    LET q == ParseQuery(h, line, character)
    IN  IF ~q.some THEN <<>>
        ELSE IF q.query = <<>>
             THEN Take(AllOfKinds(idx, h.symbol_kinds, Len(h.symbol_kinds)), cfg.max_completion_items)
             ELSE Take(SearchKinds(idx, cfg, h.symbol_kinds, q.query, Len(h.symbol_kinds)),
                       cfg.max_completion_items)

\* get_completions without the truncation to max_completion_items
GetMatchesMutNoLimit(h, idx, cfg, line, character) ==
    LET q == ParseQuery(h, line, character)
    IN  IF ~q.some THEN <<>>
        ELSE IF q.query = <<>>
             THEN AllOfKinds(idx, h.symbol_kinds, Len(h.symbol_kinds))
             ELSE SortByScoreDesc(SearchKinds(idx, cfg, h.symbol_kinds, q.query, Len(h.symbol_kinds)))

\* get_completions that takes no query (None) for the empty query: "if not query"
GetMatchesMutIgnoreNone(h, idx, cfg, line, character) ==
    LET q == ParseQuery(h, line, character)
    IN  IF q.query = <<>>
        THEN Take(AllOfKinds(idx, h.symbol_kinds, Len(h.symbol_kinds)), cfg.max_completion_items)
        ELSE Take(SortByScoreDesc(SearchKinds(idx, cfg, h.symbol_kinds, q.query, Len(h.symbol_kinds))),
                  cfg.max_completion_items)

\* get_completions of an engine that reads the copy of the index it made when it was
\* constructed, the index being empty then
GetMatchesMutSnapshot(h, idx, cfg, line, character) ==
    LET q == ParseQuery(h, line, character)
    IN  IF ~q.some THEN <<>>
        ELSE IF q.query = <<>>
             THEN Take(AllOfKinds(EmptyIndex, h.symbol_kinds, Len(h.symbol_kinds)),
                       cfg.max_completion_items)
             ELSE Take(SortByScoreDesc(SearchKinds(EmptyIndex, cfg, h.symbol_kinds, q.query,
                                                   Len(h.symbol_kinds))),
                       cfg.max_completion_items)

\* get_completions(line, character) up to the conversion to items: all_matches
GetMatches(h, idx, cfg, line, character) ==
    LET q == ParseQuery(h, line, character)
    IN  IF ~q.some THEN <<>>
        ELSE IF q.query = <<>>
             THEN Take(AllOfKinds(idx, h.symbol_kinds, Len(h.symbol_kinds)), cfg.max_completion_items)
             ELSE Take(SortByScoreDesc(SearchKinds(idx, cfg, h.symbol_kinds, q.query, Len(h.symbol_kinds))),
                       cfg.max_completion_items)

\* the decimal digits of n >= 0
RECURSIVE Digits(_)
Digits(n) ==
    IF n < 10 THEN <<(<<"0", "1", "2", "3", "4", "5", "6", "7", "8", "9">>)[n + 1]>>
    ELSE Digits(n \div 10) \o Digits(n % 10)

RECURSIVE ZeroPad(_, _)
ZeroPad(ds, width) == IF Len(ds) >= width THEN ds ELSE ZeroPad(<<"0">> \o ds, width)

\* f"{n:03d}": zero-padded to three characters, the sign counted in the width
Format03d(n) ==
    IF n >= 0 THEN ZeroPad(Digits(n), 3) ELSE <<"-">> \o ZeroPad(Digits(-n), 2)

\* _to_completion_item(symbol, score)
ToCompletionItem(h, symbol, score) ==
    [label |-> symbol.name,
     kind |-> h.completion_kind,
     detail |-> <<symbol.kind, symbol.file_path, symbol.line>>,
     sort_text |-> Format03d(100 - score),
     insert_text |-> symbol.name]

\* get_completions(line, character)
GetCompletions(h, idx, cfg, line, character) ==
    LET all_matches == GetMatches(h, idx, cfg, line, character)
    IN  [i \in 1..Len(all_matches) |->
            ToCompletionItem(h, all_matches[i].symbol, all_matches[i].score)]

(***************************************************************************)
(* TriggerfishLanguageServer.                                              *)
(***************************************************************************)
file_completion == [trigger |-> "@", symbol_kinds |-> <<"FILE">>, completion_kind |-> "File"]
class_completion == [trigger |-> ".", symbol_kinds |-> <<"CLASS">>, completion_kind |-> "Class"]
method_completion ==
    [trigger |-> "#", symbol_kinds |-> <<"METHOD", "FUNCTION">>, completion_kind |-> "Method"]

\* the handlers listed with the '.' engine first
handlersMutClassFirst == <<class_completion, file_completion, method_completion>>

\* _completion's handlers, in the order they are asked
handlers == <<file_completion, class_completion, method_completion>>

TxtSuffix == <<".", "t", "x", "t">>

\* what a completion request produced: the items, the engines whose should_trigger
\* was evaluated (in order) and the engines whose get_completions was called
Response(items, consulted, invoked) ==
    [none |-> FALSE, is_incomplete |-> FALSE, items |-> items,
     consulted |-> consulted, invoked |-> invoked]

\* a handler that returns nothing
NoReturn ==
    [none |-> TRUE, is_incomplete |-> FALSE, items |-> <<>>, consulted |-> <<>>, invoked |-> <<>>]

\* the loop over the handlers, from the i-th on
RECURSIVE Route(_, _, _, _, _, _)
Route(i, idx, cfg, line_text, character, consulted) ==
    IF i > Len(handlers) THEN Response(<<>>, consulted, <<>>)
    ELSE IF ShouldTrigger(handlers[i], line_text, character)
         THEN Response(GetCompletions(handlers[i], idx, cfg, line_text, character),
                       Append(consulted, handlers[i].trigger), <<handlers[i].trigger>>)
         ELSE Route(i + 1, idx, cfg, line_text, character,
                    Append(consulted, handlers[i].trigger))

\* the line of the document the request is on: "" past the last line
LineText(lines, position) ==
    IF position.line < Len(lines) THEN lines[position.line + 1] ELSE <<>>

\* the loop over the handlers that goes on to the next handler when the one that
\* triggers has nothing to offer
RECURSIVE RouteMutFallThrough(_, _, _, _, _, _)
RouteMutFallThrough(i, idx, cfg, line_text, character, consulted) ==
    IF i > Len(handlers) THEN Response(<<>>, consulted, <<>>)
    ELSE IF /\ ShouldTrigger(handlers[i], line_text, character)
            /\ GetCompletions(handlers[i], idx, cfg, line_text, character) # <<>>
         THEN Response(GetCompletions(handlers[i], idx, cfg, line_text, character),
                       Append(consulted, handlers[i].trigger), <<handlers[i].trigger>>)
         ELSE RouteMutFallThrough(i + 1, idx, cfg, line_text, character,
                                  Append(consulted, handlers[i].trigger))

\* _completion with that loop
CompletionOfMutFallThrough(idx, cfg, uri, lines, position) ==
    IF ~EndsWith(uri, TxtSuffix) THEN Response(<<>>, <<>>, <<>>)
    ELSE RouteMutFallThrough(1, idx, cfg, LineText(lines, position), position.character, <<>>)

\* _completion without the test of the document's suffix
CompletionOfMutNoSuffixCheck(idx, cfg, uri, lines, position) ==
    Route(1, idx, cfg, LineText(lines, position), position.character, <<>>)

\* _completion(params)
CompletionOf(idx, cfg, uri, lines, position) ==
    IF ~EndsWith(uri, TxtSuffix) THEN Response(<<>>, <<>>, <<>>)
    ELSE Route(1, idx, cfg, LineText(lines, position), position.character, <<>>)

(***************************************************************************)
(* Paths are sequences of components; NoPath is Python's None.             *)
(***************************************************************************)
NoPath == <<>>

\* file_path.relative_to(workspace_root) succeeds
IsUnder(root, path) == Len(root) < Len(path) /\ SubSeq(path, 1, Len(root)) = root

\* "/".join(components)
RECURSIVE JoinPosix(_)
JoinPosix(parts) ==
    IF Len(parts) <= 1 THEN parts
    ELSE JoinPosix(SubSeq(parts, 1, Len(parts) - 1)) \o <<"/", parts[Len(parts)]>>

\* _relative_name(workspace_root, file_path)
RelativeName(root, file_path) ==
    IF root # NoPath /\ IsUnder(root, file_path)
    THEN JoinPosix(SubSeq(file_path, Len(root) + 1, Len(file_path)))
    ELSE <<file_path[Len(file_path)]>>

\* _map_ctags_kind(ctags_kind); NoKind is Python's None
NoKind == "None"

LowerKind(k) == CASE k = "Class" -> "class" [] k = "FUNC" -> "func" [] OTHER -> k

MapCtagsKind(ctags_kind) ==
    IF ctags_kind = NoKind \/ ctags_kind = "" THEN NoKind
    ELSE LET k == LowerKind(ctags_kind)
         IN  CASE k \in {"class", "interface", "struct", "enum", "type"} -> "CLASS"
               [] k \in {"method", "member"} -> "METHOD"
               [] k \in {"function", "func", "procedure", "subroutine"} -> "FUNCTION"
               [] k \in {"variable", "var", "field", "constant"} -> "VARIABLE"
               [] OTHER -> NoKind

\* tag.get(key, default): a tag lists the keys it has
TagGet(tag, key, default) == IF key \in tag.keys THEN tag[key] ELSE default

\* _parse_code_symbols(file_path), ctags being what generate_tags did: it returned
\* ctags.tags, or raised CTagsError
RECURSIVE SymbolsOfTags(_, _)
SymbolsOfTags(file_path, tags) ==
    IF tags = <<>> THEN <<>>
    ELSE LET tag == tags[Len(tags)]
             kind == MapCtagsKind(TagGet(tag, "kind", NoKind))
             rest == SymbolsOfTags(file_path, SubSeq(tags, 1, Len(tags) - 1))
         IN  IF kind = NoKind THEN rest
             ELSE Append(rest, Symbol(TagGet(tag, "name", <<>>), kind, file_path,
                                      TagGet(tag, "line", 1),
                                      TagGet(tag, "scope", None),
                                      TagGet(tag, "language", None)))

ParseCodeSymbols(file_path, ctags) ==
    IF ctags.raised THEN <<>> ELSE SymbolsOfTags(file_path, ctags.tags)

\* the FILE symbol of _index_file and _add_file_symbol
FileSymbol(root, file_path) ==
    Symbol(RelativeName(root, file_path), "FILE", file_path, 1, None, None)

\* _index_file(file_path): the symbols handed to update_file
IndexFileSymbols(root, file_path, ctags) ==
    <<FileSymbol(root, file_path)>> \o ParseCodeSymbols(file_path, ctags)

\* _index_file that calls add_symbols where it should call update_file
IndexFileMutAdd(idx, root, file_path, ctags) ==
    AddSymbols(idx, IndexFileSymbols(root, file_path, ctags))

\* _index_file that hands update_file the file's relative name where it should hand
\* it the file's path
IndexFileMutByName(idx, root, file_path, ctags) ==
    UpdateFile(idx, RelativeName(root, file_path), IndexFileSymbols(root, file_path, ctags))

\* _index_file that lets CTagsError out of _parse_code_symbols: update_file is not
\* reached
IndexFileMutPropagate(idx, root, file_path, ctags) ==
    IF ctags.raised THEN idx
    ELSE UpdateFile(idx, file_path, IndexFileSymbols(root, file_path, ctags))

\* _index_file(file_path)
IndexFile(idx, root, file_path, ctags) ==
    UpdateFile(idx, file_path, IndexFileSymbols(root, file_path, ctags))

\* _add_file_symbol that attributes the FILE symbol to the path relative to the root
AddFileSymbolMutRelative(idx, root, file_path) ==
    AddSymbols(idx, <<Symbol(RelativeName(root, file_path), "FILE",
                             SubSeq(file_path, Len(root) + 1, Len(file_path)), 1, None, None)>>)

\* _add_file_symbol(file_path)
AddFileSymbol(idx, root, file_path) == AddSymbols(idx, <<FileSymbol(root, file_path)>>)

\* _index_workspace(workspace_path): scan lists the files the walk yields, each with
\* what ctags answers for it
RECURSIVE IndexWorkspace(_, _, _)
IndexWorkspace(idx, root, scan) ==
    IF scan = <<>> THEN idx
    ELSE LET done == IndexWorkspace(idx, root, SubSeq(scan, 1, Len(scan) - 1))
             file == scan[Len(scan)]
             code_symbols == ParseCodeSymbols(file.file_path, file.ctags)
             with_file == AddFileSymbol(done, root, file.file_path)
         IN  IF code_symbols # <<>> THEN AddSymbols(with_file, code_symbols) ELSE with_file

\* _get_workspace_root(params)
GetWorkspaceRoot(params) ==
    IF params.workspace_folders # <<>> THEN params.workspace_folders[1]
    ELSE IF params.root_uri # NoPath THEN params.root_uri
    ELSE NoPath

(***************************************************************************)
(* The inputs the handlers are run on.                                     *)
(***************************************************************************)
LineChars == {"@", ".", "#", " ", "a"}
Lines == SeqsUpTo(LineChars, MaxLineLen)

\* a document is its lines: empty, or one line
Documents == {<<>>} \cup {<<l>> : l \in Lines}

URIs == {<<"n", ".", "t", "x", "t">>, <<"m", ".", "p", "y">>}

WorkspaceDir == <<"w">>
Paths == {<<"w", "a">>, <<"w", "b", "a">>}

InitParams ==
    {[workspace_folders |-> <<>>, root_uri |-> NoPath],
     [workspace_folders |-> <<WorkspaceDir>>, root_uri |-> NoPath],
     [workspace_folders |-> <<>>, root_uri |-> WorkspaceDir]}

Tag(name, kind, line, scope, language, keys) ==
    [name |-> name, kind |-> kind, line |-> line, scope |-> scope,
     language |-> language, keys |-> keys]

TagPool ==
    {Tag(<<"a", "b">>, "Class", 2, "ba", "py", {"name", "kind", "line", "scope", "language"}),
     Tag(<<"b", "_", "a">>, "member", 0, None, None, {"name", "kind"}),
     Tag(<<"a", "a">>, "FUNC", 4, None, None, {"name", "kind", "line"}),
     Tag(<<"b", "_", "a">>, "procedure", 8, None, None, {"name", "kind", "line"}),
     Tag(<<"a">>, "var", 5, None, None, {"name", "kind", "line"}),
     Tag(<<"b">>, "macro", 6, None, None, {"name", "kind", "line"}),
     Tag(<<"b">>, NoKind, 7, None, None, {"name", "line"})}

CtagsResults ==
    {[raised |-> TRUE, tags |-> <<>>]}
    \cup {[raised |-> FALSE, tags |-> ts] : ts \in SeqsUpTo(TagPool, MaxTags)}

\* the files a workspace walk can yield: files under the root, each once
Walks(root) ==
    {w \in SeqsUpTo({p \in Paths : IsUnder(root, p)}, Cardinality(Paths)) :
        \A i, j \in 1..Len(w) : i # j => w[i] # w[j]}

Scans(root) ==
    UNION {{s \in [1..Len(w) -> [file_path : Paths, ctags : CtagsResults]] :
                \A i \in 1..Len(w) : s[i].file_path = w[i]} : w \in Walks(root)}

\* TriggerfishConfig: max_completion_items > 0, min_fuzzy_score >= 0
MinScores == {35}
Configs == [max_completion_items : 1..MaxItems, min_fuzzy_score : MinScores]

\* the lines of the repository's tests, with one-letter names: "@", "@util", ".",
\* ".Util", "#save", "extends .MyClass", and two triggers on one line
SessionLines ==
    {<<"@">>, <<"@", "a">>, <<".">>, <<".", "a">>, <<"#", "a">>,
     <<"a", " ", ".", "a">>, <<"@", " ", ".">>}

NoHandler == [trigger |-> "", symbol_kinds |-> <<>>, completion_kind |-> ""]

NoPosition == [line |-> 0, character |-> 0]

\* an operation and its arguments; the fields an operation does not take stay blank.
\* For an open/change event, symbols is what _index_file handed to update_file and
\* raised tells whether generate_tags raised CTagsError; work lists the add_symbols
\* calls a workspace scan in progress has still to make
Call(op) ==
    [op |-> op, uri |-> <<>>, lines |-> <<>>, position |-> NoPosition,
     file_path |-> NoPath, symbols |-> <<>>, raised |-> FALSE, work |-> <<>>,
     handler |-> NoHandler, kind |-> None]

\* the line and the cursor of the request in call
CallLine == LineText(call.lines, call.position)
CallCharacter == call.position.character

(***************************************************************************)
(* The server: construction, then one action per handler.                  *)
(***************************************************************************)
Init ==
    /\ index = EmptyIndex
    /\ workspace_root = NoPath
    /\ config \in Configs
    /\ call = Call("created")
    /\ ret = NoReturn
    /\ pc = "idle"

\* initialize: the first request of a session
Initialize ==
    /\ call.op = "created"
    /\ \E params \in InitParams :
        LET root == GetWorkspaceRoot(params)
        IN  /\ workspace_root' = root
            /\ IF root # NoPath
               THEN \E scan \in Scans(root) : index' = IndexWorkspace(index, root, scan)
               ELSE index' = index
    /\ call' = Call("initialize")
    /\ ret' = NoReturn
    /\ UNCHANGED <<config, pc>>

\* textDocument/didOpen
DidOpen ==
    /\ \E file_path \in Paths, ctags \in CtagsResults :
        /\ index' = IndexFile(index, workspace_root, file_path, ctags)
        /\ call' = [Call("didOpen") EXCEPT
                        !.file_path = file_path,
                        !.symbols = IndexFileSymbols(workspace_root, file_path, ctags),
                        !.raised = ctags.raised]
    /\ ret' = NoReturn
    /\ UNCHANGED <<workspace_root, config, pc>>

\* textDocument/didChange
DidChange ==
    /\ \E file_path \in Paths, ctags \in CtagsResults :
        /\ index' = IndexFile(index, workspace_root, file_path, ctags)
        /\ call' = [Call("didChange") EXCEPT
                        !.file_path = file_path,
                        !.symbols = IndexFileSymbols(workspace_root, file_path, ctags),
                        !.raised = ctags.raised]
    /\ ret' = NoReturn
    /\ UNCHANGED <<workspace_root, config, pc>>

\* textDocument/completion on one document and position
Serve(uri, lines, character) ==
    LET position == [line |-> 0, character |-> character]
    IN  /\ character <= Len(LineText(lines, position)) + 1
        /\ call' = [Call("completion") EXCEPT
                        !.uri = uri, !.lines = lines, !.position = position]
        /\ ret' = CompletionOf(index, config, uri, lines, position)
        /\ UNCHANGED <<index, workspace_root, config, pc>>

\* textDocument/completion, on the lines of the tests
Completion ==
    \E uri \in URIs, line \in SessionLines, character \in 0..(MaxLineLen + 2) :
        Serve(uri, <<line>>, character)

Next == Initialize \/ DidOpen \/ DidChange \/ Completion

Spec == Init /\ [][Next]_vars

(***************************************************************************)
(* A session that ends with one completion request, on any document of the *)
(* bounded set.                                                            *)
(***************************************************************************)
CompletionAny ==
    \E uri \in URIs, lines \in Documents, character \in 0..(MaxLineLen + 1) :
        Serve(uri, lines, character)

NextRequest ==
    \/ call.op # "completion" /\ Initialize
    \/ call.op # "completion" /\ DidOpen
    \/ call.op # "completion" /\ DidChange
    \/ call.op # "completion" /\ CompletionAny

SpecRequest == Init /\ [][NextRequest]_vars

(***************************************************************************)
(* A session that ends with one engine queried directly, as the tests of   *)
(* the completion handler do.                                              *)
(***************************************************************************)
EngineAnswer(h, idx, cfg, line, character) ==
    [none |-> FALSE,
     should_trigger |-> ShouldTrigger(h, line, character),
     parse_query |-> ParseQuery(h, line, character),
     matches |-> GetMatches(h, idx, cfg, line, character),
     items |-> GetCompletions(h, idx, cfg, line, character)]

EngineCall ==
    \E i \in 1..Len(handlers), line \in Lines, character \in 0..(MaxLineLen + 1) :
        /\ character <= Len(line) + 1
        /\ call' = [Call("engine") EXCEPT
                        !.lines = <<line>>, !.position = [line |-> 0, character |-> character],
                        !.handler = handlers[i]]
        /\ ret' = EngineAnswer(handlers[i], index, config, line, character)
        /\ UNCHANGED <<index, workspace_root, config, pc>>

NextEngine ==
    \/ call.op # "engine" /\ Initialize
    \/ call.op # "engine" /\ DidOpen
    \/ call.op # "engine" /\ DidChange
    \/ call.op # "engine" /\ EngineCall

SpecEngine == Init /\ [][NextEngine]_vars

(***************************************************************************)
(* The symbol index used directly, as the tests do (index.add_symbols) and *)
(* as its contract allows (update_file with any sequence, the empty one    *)
(* included).                                                              *)
(***************************************************************************)
\* the symbols the adapter builds for a path
SymbolPool(file_path) ==
    {FileSymbol(NoPath, file_path)}
    \cup {s \in UNION {Range(SymbolsOfTags(file_path, <<tag>>)) : tag \in TagPool} :
            s.kind # "VARIABLE"}

ApiAddSymbols ==
    /\ \E symbols \in SeqsUpTo(UNION {SymbolPool(q) : q \in Paths}, MaxTags + 1) :
        /\ Len(index) + Len(symbols) <= MaxIndexLen
        /\ index' = AddSymbols(index, symbols)
        /\ call' = [Call("add_symbols") EXCEPT !.symbols = symbols]
    /\ ret' = NoReturn
    /\ UNCHANGED <<workspace_root, config, pc>>

ApiUpdateFile ==
    /\ \E file_path \in Paths :
        \E symbols \in SeqsUpTo(SymbolPool(file_path), MaxTags + 1) :
            /\ Len(index) + Len(symbols) <= MaxIndexLen
            /\ index' = UpdateFile(index, file_path, symbols)
            /\ call' = [Call("update_file") EXCEPT !.file_path = file_path, !.symbols = symbols]
    /\ ret' = NoReturn
    /\ UNCHANGED <<workspace_root, config, pc>>

ApiGetSymbols ==
    /\ \E kind \in Range(SymbolKinds) \cup {None} :
        /\ call' = [Call("get_symbols") EXCEPT !.kind = kind]
        /\ ret' = [none |-> FALSE, symbols |-> GetSymbols(index, kind)]
    /\ UNCHANGED <<index, workspace_root, config, pc>>

NextIndex == ApiAddSymbols \/ ApiUpdateFile \/ ApiGetSymbols

SpecIndex == Init /\ [][NextIndex]_vars

(***************************************************************************)
(* The index filled directly and an engine queried on it, as the tests of   *)
(* the triggers do: add_symbols, then get_completions on a line that ends   *)
(* in a query.                                                              *)
(***************************************************************************)
QueryLines(h) == {<<h.trigger>> \o q : q \in SeqsUpTo({"a"}, MaxLineLen - 1)}

ApiGetCompletions ==
    /\ \E i \in 1..Len(handlers) :
        \E line \in QueryLines(handlers[i]) :
            /\ call' = [Call("engine") EXCEPT
                            !.lines = <<line>>,
                            !.position = [line |-> 0, character |-> Len(line)],
                            !.handler = handlers[i]]
            /\ ret' = EngineAnswer(handlers[i], index, config, line, Len(line))
    /\ UNCHANGED <<index, workspace_root, config, pc>>

NextQuery == ApiAddSymbols \/ ApiUpdateFile \/ ApiGetCompletions

SpecQuery == Init /\ [][NextQuery]_vars

(***************************************************************************)
(* A session in a workspace that holds every file: the scan of initialize   *)
(* goes through all of them, and open/change events follow.                 *)
(***************************************************************************)
InitializeScanned ==
    /\ Initialize
    /\ workspace_root' # NoPath
    /\ \A p \in Paths : \E i \in 1..Len(index') : index'[i].file_path = p

NextScan == InitializeScanned \/ DidOpen \/ DidChange

SpecScan == Init /\ [][NextScan]_vars

(***************************************************************************)
(* The handlers step by step.  They are coroutines on one event loop; each  *)
(* awaits only _index_workspace, _index_file or _completion, none of which  *)
(* suspends, so the loop dispatches the next request when the handler in    *)
(* progress has returned.  update_file is taken, as the spec words it, as   *)
(* the removal of the path's symbols followed by add_symbols.               *)
(***************************************************************************)
\* a loop that dispatches a request whatever the handler in progress is doing
CanDispatchMutAnytime == TRUE

\* the loop takes the next request
CanDispatch == pc = "idle"

\* the add_symbols calls of _index_workspace, in order: per file its FILE symbol,
\* then its code symbols when there are any
RECURSIVE ScanCalls(_, _)
ScanCalls(root, scan) ==
    IF scan = <<>> THEN <<>>
    ELSE LET file == scan[Len(scan)]
             code_symbols == ParseCodeSymbols(file.file_path, file.ctags)
         IN  ScanCalls(root, SubSeq(scan, 1, Len(scan) - 1))
             \o <<(<<FileSymbol(root, file.file_path)>>)>>
             \o (IF code_symbols # <<>> THEN <<code_symbols>> ELSE <<>>)

\* initialize up to the call of _index_workspace
InitializeBegins ==
    /\ CanDispatch
    /\ call.op = "created"
    /\ \E params \in InitParams :
        LET root == GetWorkspaceRoot(params)
        IN  /\ workspace_root' = root
            /\ IF root # NoPath
               THEN \E scan \in Scans(root) :
                        /\ call' = [Call("initialize") EXCEPT
                                        !.symbols = IndexWorkspace(EmptyIndex, root, scan),
                                        !.work = ScanCalls(root, scan)]
                        /\ pc' = "index_workspace"
               ELSE call' = Call("initialize") /\ pc' = "idle"
    /\ ret' = NoReturn
    /\ UNCHANGED <<index, config>>

\* one add_symbols call of the scan
ScanAdds ==
    /\ pc = "index_workspace"
    /\ call.work # <<>>
    /\ index' = AddSymbols(index, Head(call.work))
    /\ call' = [call EXCEPT !.work = Tail(call.work)]
    /\ UNCHANGED <<workspace_root, config, ret, pc>>

\* the scan is through: initialize returns
ScanEnds ==
    /\ pc = "index_workspace"
    /\ call.work = <<>>
    /\ pc' = "idle"
    /\ UNCHANGED <<index, workspace_root, config, call, ret>>

\* did_open / did_change and _index_file up to the call of update_file
IndexFileBegins(op) ==
    /\ CanDispatch
    /\ \E file_path \in Paths, ctags \in CtagsResults :
        call' = [Call(op) EXCEPT
                    !.file_path = file_path,
                    !.symbols = IndexFileSymbols(workspace_root, file_path, ctags),
                    !.raised = ctags.raised]
    /\ pc' = "update_file"
    /\ ret' = NoReturn
    /\ UNCHANGED <<index, workspace_root, config>>

OpenBegins == IndexFileBegins("didOpen")

ChangeBegins == IndexFileBegins("didChange")

\* update_file: the symbols attributed to the path are removed
UpdateFileRemoves ==
    /\ pc = "update_file"
    /\ index' = SelectSeq(index, LAMBDA s : s.file_path # call.file_path)
    /\ pc' = "add_symbols"
    /\ UNCHANGED <<workspace_root, config, call, ret>>

\* update_file: the new symbols are added; the handler returns
UpdateFileAdds ==
    /\ pc = "add_symbols"
    /\ index' = AddSymbols(index, call.symbols)
    /\ pc' = "idle"
    /\ UNCHANGED <<workspace_root, config, call, ret>>

\* textDocument/completion: _completion from its first line to its return
CompletionRuns ==
    /\ CanDispatch
    /\ \E uri \in URIs, line \in SessionLines :
        LET position == [line |-> 0, character |-> Len(line)]
        IN  /\ call' = [Call("completion") EXCEPT
                            !.uri = uri, !.lines = <<line>>, !.position = position]
            /\ ret' = CompletionOf(index, config, uri, <<line>>, position)
    /\ UNCHANGED <<index, workspace_root, config, pc>>

\* a session that ends with a completion request
NextLoop ==
    \/ call.op # "completion" /\ InitializeBegins
    \/ call.op # "completion" /\ ScanAdds
    \/ call.op # "completion" /\ ScanEnds
    \/ call.op # "completion" /\ OpenBegins
    \/ call.op # "completion" /\ ChangeBegins
    \/ call.op # "completion" /\ UpdateFileRemoves
    \/ call.op # "completion" /\ UpdateFileAdds
    \/ call.op # "completion" /\ CompletionRuns

SpecLoop == Init /\ [][NextLoop]_vars

(***************************************************************************)
(* _to_completion_item applied to two candidates of one engine, as          *)
(* get_completions applies it to each member of all_matches.  Scores are     *)
(* whole numbers here, which int() leaves as they are.  One call is made   *)
(* on the engines as constructed.                                           *)
(***************************************************************************)
Scores == 0..MaxScore

Candidate(h, symbol, score) ==
    [symbol |-> symbol, score |-> score, item |-> ToCompletionItem(h, symbol, score)]

ApiToCompletionItem ==
    /\ call.op = "created"
    /\ \E i \in 1..Len(handlers), symbol \in SymbolPool(<<"w", "a">>), a \in Scores, b \in Scores :
        /\ symbol.kind \in Range(handlers[i].symbol_kinds)
        /\ call' = [Call("to_completion_item") EXCEPT !.handler = handlers[i]]
        /\ ret' = [none |-> FALSE,
                   first |-> Candidate(handlers[i], symbol, a),
                   second |-> Candidate(handlers[i], symbol, b)]
    /\ UNCHANGED <<index, workspace_root, config, pc>>

NextItem == ApiToCompletionItem

SpecItem == Init /\ [][NextItem]_vars

(***************************************************************************)
(* What a completion request does to the objects it can reach, statement by *)
(* statement: the shared index, the shared configuration and all_matches,   *)
(* the list get_completions creates.  get_symbols and fuzzy_search return   *)
(* their results and leave the index as it is.  A request may follow        *)
(* another one, so that the same request can be made twice in a row.        *)
(***************************************************************************)
\* the objects at the start of get_completions: all_matches = []
Store(idx, cfg) == [index |-> idx, config |-> cfg, all_matches |-> <<>>]

\* all_matches.extend(matches)
Extend(st, matches) == [st EXCEPT !.all_matches = @ \o matches]

\* all_matches.sort(key=lambda x: x[1], reverse=True)
SortAllMatches(st) == [st EXCEPT !.all_matches = SortByScoreDesc(@)]

\* the truncation made in place on a list that is the index's own:
\* del symbols[max_completion_items:]
TruncateMutInPlace(st) ==
    [st EXCEPT !.index = Take(@, st.config.max_completion_items),
               !.all_matches = Take(@, st.config.max_completion_items)]

\* all_matches = all_matches[: self._config.max_completion_items]
Truncate(st) == [st EXCEPT !.all_matches = Take(@, st.config.max_completion_items)]

\* the loop of the empty query over the first n kinds
RECURSIVE CollectKinds(_, _, _)
CollectKinds(st, h, n) ==
    IF n = 0 THEN st
    ELSE LET before == CollectKinds(st, h, n - 1)
             symbols == GetSymbols(before.index, h.symbol_kinds[n])
         IN  Extend(before, [i \in 1..Len(symbols) |-> [symbol |-> symbols[i], score |-> 0]])

\* the loop of a non-empty query over the first n kinds
RECURSIVE SearchKindsIn(_, _, _, _)
SearchKindsIn(st, h, query, n) ==
    IF n = 0 THEN st
    ELSE LET before == SearchKindsIn(st, h, query, n - 1)
         IN  Extend(before, FuzzySearch(before.index, query, h.symbol_kinds[n],
                                        before.config.max_completion_items,
                                        before.config.min_fuzzy_score))

\* get_completions(line, character) on the objects st: the objects when it returns
RunGetCompletions(h, st, line, character) ==
    LET q == ParseQuery(h, line, character)
    IN  IF ~q.some THEN st
        ELSE IF q.query = <<>>
             THEN Truncate(CollectKinds(st, h, Len(h.symbol_kinds)))
             ELSE Truncate(SortAllMatches(SearchKindsIn(st, h, q.query, Len(h.symbol_kinds))))

\* the items get_completions returns from all_matches
ItemsOf(h, st) ==
    [i \in 1..Len(st.all_matches) |->
        ToCompletionItem(h, st.all_matches[i].symbol, st.all_matches[i].score)]

\* _completion's loop over the handlers from the i-th on: the objects when it returns
\* and the engine that answered (0: none)
RECURSIVE RunRoute(_, _, _, _)
RunRoute(i, st, line_text, character) ==
    IF i > Len(handlers) THEN [store |-> st, engine |-> 0]
    ELSE IF ShouldTrigger(handlers[i], line_text, character)
         THEN [store |-> RunGetCompletions(handlers[i], st, line_text, character), engine |-> i]
         ELSE RunRoute(i + 1, st, line_text, character)

\* _completion(params) on the objects st
RunCompletion(st, uri, lines, position) ==
    IF ~EndsWith(uri, TxtSuffix) THEN [store |-> st, engine |-> 0]
    ELSE RunRoute(1, st, LineText(lines, position), position.character)

\* the CompletionList of a run
ListOf(run) ==
    [is_incomplete |-> FALSE,
     items |-> IF run.engine = 0 THEN <<>> ELSE ItemsOf(handlers[run.engine], run.store)]

\* what a request returned, whether it repeats the request before it, and what that
\* one returned
Answer(value, again) ==
    [none |-> FALSE, value |-> value, repeated |-> again,
     previous |-> IF again THEN ret.value ELSE None]

\* textDocument/completion with the cursor at the end of the line
CompletionServed ==
    \E uri \in URIs, line \in SessionLines :
        LET position == [line |-> 0, character |-> Len(line)]
            request == [Call("completion") EXCEPT
                            !.uri = uri, !.lines = <<line>>, !.position = position]
            run == RunCompletion(Store(index, config), uri, <<line>>, position)
        IN  /\ call' = request
            /\ ret' = Answer(ListOf(run), call = request)
            /\ index' = run.store.index
            /\ config' = run.store.config
            /\ UNCHANGED <<workspace_root, pc>>

\* one engine asked directly: should_trigger, parse_query, get_completions
EngineQueried ==
    \E i \in 1..Len(handlers), line \in SessionLines :
        LET request == [Call("engine") EXCEPT
                            !.lines = <<line>>,
                            !.position = [line |-> 0, character |-> Len(line)],
                            !.handler = handlers[i]]
            st == RunGetCompletions(handlers[i], Store(index, config), line, Len(line))
        IN  /\ call' = request
            /\ ret' = Answer([should_trigger |-> ShouldTrigger(handlers[i], line, Len(line)),
                              parse_query |-> ParseQuery(handlers[i], line, Len(line)),
                              items |-> ItemsOf(handlers[i], st)],
                             call = request)
            /\ index' = st.index
            /\ config' = st.config
            /\ UNCHANGED <<workspace_root, pc>>

NextReads == Initialize \/ DidOpen \/ DidChange \/ CompletionServed \/ EngineQueried

SpecReads == Init /\ [][NextReads]_vars

(***************************************************************************)
(* Properties.                                                             *)
(***************************************************************************)
OfPath(symbols, path) == SelectSeq(symbols, LAMBDA s : s.file_path = path)
NotOfPath(symbols, path) == SelectSeq(symbols, LAMBDA s : s.file_path # path)

KindSet == Range(SymbolKinds)

\* c occurs in line before the cursor: at a 0-based offset below character
Precedes(c, line, character) ==
    \E i \in 1..Len(line) : i <= character /\ line[i] = c

\* the 1-based place of the last occurrence of c before the cursor
LastBefore(c, line, character) ==
    CHOOSE i \in 1..Len(line) :
        /\ i <= character /\ line[i] = c
        /\ \A j \in 1..Len(line) : (j <= character /\ line[j] = c) => j <= i

Whitespace == {" ", "\t", "\n", "\r", "\f"}

\* the characters of line after place i and before the cursor
Between(line, i, character) ==
    [j \in 1..(Min(character, Len(line)) - i) |-> line[i + j]]

\* C1: an open/change event on path p, which hands the symbols S to update_file,
\* leaves, for every kind, exactly the members of S of that kind attributed to p,
\* and the symbols of every other path as they were, in the same order.
C1_UpdateFileReplaces ==
    [][call'.op \in {"didOpen", "didChange"} =>
        \A k \in KindSet \cup {None} :
            /\ OfPath(GetSymbols(index', k), call'.file_path)
                 = GetSymbols(call'.symbols, k)
            /\ NotOfPath(GetSymbols(index', k), call'.file_path)
                 = NotOfPath(GetSymbols(index, k), call'.file_path)]_vars

\* C1 witness: a change event replaced a file's symbols (its FILE symbol and a code
\* symbol) in an index that also holds the other file's
C1_Witness ==
    /\ call.op = "didChange"
    /\ Len(call.symbols) >= 2
    /\ OfPath(index, call.file_path) = call.symbols
    /\ Len(NotOfPath(index, call.file_path)) >= 2
    /\ workspace_root # NoPath

\* the document's identifier ends in ".txt"
IsTxt(uri) ==
    /\ Len(uri) >= 4
    /\ uri[Len(uri) - 3] = "." /\ uri[Len(uri) - 2] = "t"
    /\ uri[Len(uri) - 1] = "x" /\ uri[Len(uri)] = "t"

\* a completion request on a document completion is served for
Eligible == call.op = "completion" /\ IsTxt(call.uri)

TriggerOrder == <<"@", ".", "#">>

EngineOfTrigger(c) ==
    CASE c = "@" -> file_completion [] c = "." -> class_completion [] c = "#" -> method_completion

\* the places in TriggerOrder of the triggers that precede the cursor
Firing(line, character) ==
    {i \in 1..Len(TriggerOrder) : Precedes(TriggerOrder[i], line, character)}

First(S) == CHOOSE i \in S : \A j \in S : i <= j

\* C2: on an eligible document the engines are asked in the order '@', '.', '#', up
\* to the first whose trigger precedes the cursor; the response is that engine's
\* get_completions and no other engine's is called; it is empty when none triggers.
C2_FirstTriggerWins ==
    Eligible =>
        LET fire == Firing(CallLine, CallCharacter)
        IN  IF fire = {}
            THEN /\ ret.consulted = TriggerOrder
                 /\ ret.invoked = <<>>
                 /\ ret.items = <<>>
            ELSE /\ ret.consulted = SubSeq(TriggerOrder, 1, First(fire))
                 /\ ret.invoked = <<TriggerOrder[First(fire)]>>
                 /\ ret.items = GetCompletions(EngineOfTrigger(TriggerOrder[First(fire)]),
                                               index, config, CallLine, CallCharacter)

\* C2 witness: only '.' precedes the cursor, at the end of a line like
\* "extends .MyClass": the '.' engine fires and returns class candidates
C2_Witness ==
    /\ Eligible
    /\ CallLine = <<" ", ".", "a">>
    /\ CallCharacter = 3
    /\ ret.consulted = <<"@", ".">>
    /\ ret.invoked = <<".">>
    /\ ret.items # <<>>
    /\ \A i \in 1..Len(ret.items) : ret.items[i].kind = "Class"

\* C3: parse_query finds the last trigger before the cursor and returns what lies
\* between it and the cursor: the empty string when nothing does, no query exactly
\* when there is no trigger or a whitespace character lies between.
C3_ParseQuery ==
    call.op = "engine" =>
        LET c == call.handler.trigger
        IN  IF ~Precedes(c, CallLine, CallCharacter)
            THEN ~ret.parse_query.some
            ELSE LET between == Between(CallLine, LastBefore(c, CallLine, CallCharacter),
                                        CallCharacter)
                 IN  IF \E j \in 1..Len(between) : between[j] \in Whitespace
                     THEN ~ret.parse_query.some
                     ELSE ret.parse_query = SomeQuery(between)

\* C3 witness: the trigger precedes the cursor and a space follows it, then a letter
C3_Witness ==
    /\ call.op = "engine"
    /\ Precedes(call.handler.trigger, CallLine, CallCharacter)
    /\ CallLine[Len(CallLine)] = "a"
    /\ CallCharacter = Len(CallLine)
    /\ ~ret.parse_query.some

\* C4: should_trigger is true exactly when the engine's trigger occurs in the line
\* before the cursor, whatever follows it and whatever other triggers the line has.
C4_ShouldTrigger ==
    call.op = "engine" =>
        (ret.should_trigger <=> Precedes(call.handler.trigger, CallLine, CallCharacter))

\* C4 witness: the trigger is on the line but only after the cursor, with another
\* engine's trigger before the cursor
C4_Witness ==
    /\ call.op = "engine"
    /\ call.handler.trigger = "."
    /\ CallLine = <<"@", "a", ".">>
    /\ CallCharacter = 2
    /\ ~ret.should_trigger

\* the engine was asked with nothing but its trigger before the cursor
EmptyQuery == call.op = "engine" /\ ret.parse_query = SomeQuery(<<>>)

\* the symbols of the engine's kinds, in the order they were inserted in the index
EligibleInserted(h) == SelectSeq(index, LAMBDA s : s.kind \in Range(h.symbol_kinds))

\* the symbols of the engine's kinds, kind after kind in the engine's order, each
\* kind in the order of insertion
EligibleByKind(h) ==
    IF Len(h.symbol_kinds) = 1 THEN GetSymbols(index, h.symbol_kinds[1])
    ELSE GetSymbols(index, h.symbol_kinds[1]) \o GetSymbols(index, h.symbol_kinds[2])

SymbolsOf(matches) == [i \in 1..Len(matches) |-> matches[i].symbol]

\* C5 as claimed: on an empty query the candidates are the first
\* min(|eligible|, max_completion_items) eligible symbols in insertion order across
\* the engine's kinds, each with score 0.
C5_Original ==
    EmptyQuery =>
        /\ Len(ret.matches) = Min(Len(EligibleInserted(call.handler)), config.max_completion_items)
        /\ \A i \in 1..Len(ret.matches) : ret.matches[i].score = 0
        /\ SymbolsOf(ret.matches)
             = Take(EligibleInserted(call.handler), config.max_completion_items)

\* C5 amended: on an empty query there are min(|eligible|, max_completion_items)
\* candidates, each with score 0: the first symbols of the engine's kinds taken kind
\* after kind in the engine's configured order, each kind in insertion order.
C5_EmptyQuery ==
    EmptyQuery =>
        /\ Len(ret.matches) = Min(Len(EligibleInserted(call.handler)), config.max_completion_items)
        /\ \A i \in 1..Len(ret.matches) : ret.matches[i].score = 0
        /\ SymbolsOf(ret.matches)
             = Take(EligibleByKind(call.handler), config.max_completion_items)
        /\ Len(ret.items) = Len(ret.matches)
        /\ \A i \in 1..Len(ret.items) : ret.items[i].label = ret.matches[i].symbol.name

\* C5 witness: '#' alone before the cursor, with more METHOD and FUNCTION symbols
\* in the index than max_completion_items
C5_Witness ==
    /\ EmptyQuery
    /\ call.handler.trigger = "#"
    /\ Len(GetSymbols(index, "METHOD")) >= 1
    /\ Len(GetSymbols(index, "FUNCTION")) >= 1
    /\ Len(EligibleInserted(call.handler)) > config.max_completion_items
    /\ Len(ret.items) = config.max_completion_items

\* the engine was asked with a non-empty query
NonEmptyQuery == call.op = "engine" /\ ret.parse_query.some /\ ret.parse_query.query # <<>>

\* C6: on a non-empty query the candidates are symbols of the engine's kinds, in
\* order of non-increasing score, at most max_completion_items of them; and every
\* response, of an engine or of the server, has at most max_completion_items items.
C6_RankedAndCapped ==
    call.op = "engine" =>
        /\ NonEmptyQuery =>
            /\ \A i \in 1..Len(ret.matches) :
                /\ ret.matches[i].symbol.kind \in Range(call.handler.symbol_kinds)
                /\ ret.matches[i].symbol \in Range(index)
                /\ ret.matches[i].score
                     = FuzzyScore(ret.parse_query.query, ret.matches[i].symbol.name)
            /\ \A i, j \in 1..Len(ret.matches) :
                i < j => ret.matches[i].score >= ret.matches[j].score
        /\ Len(ret.matches) <= config.max_completion_items
        /\ Len(ret.items) <= config.max_completion_items
        /\ \A uri \in URIs :
            Len(CompletionOf(index, config, uri, call.lines, call.position).items)
                <= config.max_completion_items

\* C6 witness: '#' with a query that a METHOD matches worse than a FUNCTION: the
\* FUNCTION, searched second, comes first
C6_Witness ==
    /\ NonEmptyQuery
    /\ call.handler.trigger = "#"
    /\ Len(ret.matches) = 2
    /\ ret.matches[1].symbol.kind = "FUNCTION"
    /\ ret.matches[2].symbol.kind = "METHOD"
    /\ ret.matches[1].score > ret.matches[2].score

\* C7: when the engine's trigger does not precede the cursor, should_trigger is
\* false, parse_query gives no query and get_completions is empty, whatever the
\* index holds.
C7_NoTriggerNoCompletions ==
    call.op = "engine" =>
        /\ ~Precedes(call.handler.trigger, CallLine, CallCharacter) =>
            ~ret.should_trigger /\ ~ret.parse_query.some /\ ret.items = <<>>
        /\ ~ret.should_trigger => ~ret.parse_query.some /\ ret.items = <<>>

\* C7 witness: the index holds symbols of the engine's kind and the trigger is on
\* the line, after the cursor
C7_Witness ==
    /\ call.op = "engine"
    /\ EligibleInserted(call.handler) # <<>>
    /\ \E i \in 1..Len(CallLine) : CallLine[i] = call.handler.trigger
    /\ ~Precedes(call.handler.trigger, CallLine, CallCharacter)
    /\ ret.items = <<>>

\* the index holds a symbol that engine h offers for query q
HasCandidate(h, q) ==
    \E i \in 1..Len(index) :
        /\ index[i].kind \in Range(h.symbol_kinds)
        /\ q # <<>> => /\ IsMatch(q, index[i].name)
                       /\ FuzzyScore(q, index[i].name) >= config.min_fuzzy_score

\* C8: a request on a document that is not a ".txt" one gets an empty response and
\* no engine is asked, whatever the line and the index; a request on a ".txt"
\* document whose firing engine has a query and a matching symbol gets candidates.
C8_OnlyTxtServed ==
    call.op = "completion" =>
        /\ ~IsTxt(call.uri) =>
            ret.items = <<>> /\ ret.consulted = <<>> /\ ret.invoked = <<>>
        /\ (IsTxt(call.uri) /\ Firing(CallLine, CallCharacter) # {}) =>
            LET h == EngineOfTrigger(TriggerOrder[First(Firing(CallLine, CallCharacter))])
                between == Between(CallLine, LastBefore(h.trigger, CallLine, CallCharacter),
                                   CallCharacter)
            IN  ((\A j \in 1..Len(between) : between[j] \notin Whitespace)
                   /\ HasCandidate(h, between))
                => ret.items # <<>>

\* C8 witness: "@" typed in a document that is not a ".txt" one, with FILE symbols
\* in the index: nothing is offered and no engine is asked
C8_Witness ==
    /\ call.op = "completion"
    /\ call.uri = <<"m", ".", "p", "y">>
    /\ CallLine = <<"@">>
    /\ CallCharacter = 1
    /\ GetSymbols(index, "FILE") # <<>>
    /\ ret.items = <<>>
    /\ ret.consulted = <<>>

\* the places in the index of a symbol
Places(s) == {i \in 1..Len(index) : index[i] = s}

\* C9: fuzzy_search(query, kind, limit, min_score) returns at most limit symbols of
\* the kind, each matching with a score of at least min_score, in order of
\* non-increasing score, and of two with equal score the one inserted earlier first.
C9_FuzzySearchOrder ==
    NonEmptyQuery =>
        \A kind \in KindSet, limit \in 0..MaxItems, min_score \in {0, 35, 100} :
            LET found == FuzzySearch(index, ret.parse_query.query, kind, limit, min_score)
            IN  /\ Len(found) <= limit
                /\ \A i \in 1..Len(found) :
                    /\ found[i].symbol.kind = kind
                    /\ found[i].symbol \in Range(index)
                    /\ found[i].score >= min_score
                    /\ found[i].score
                         = FuzzyScore(ret.parse_query.query, found[i].symbol.name)
                /\ \A i, j \in 1..Len(found) :
                    i < j =>
                        /\ found[i].score >= found[j].score
                        /\ found[i].score = found[j].score =>
                            \E a \in Places(found[i].symbol), b \in Places(found[j].symbol) :
                                a <= b

\* C9 witness: the query matches two different symbols of the engine's kind equally
\* well, and both are found, in the order of their insertion
C9_Witness ==
    /\ NonEmptyQuery
    /\ LET kind == call.handler.symbol_kinds[1]
           found == FuzzySearch(index, ret.parse_query.query, kind,
                                config.max_completion_items, config.min_fuzzy_score)
       IN  /\ Len(found) = 2
           /\ found[1].score = found[2].score
           /\ found[1].symbol # found[2].symbol
           /\ GetSymbols(index, kind) = <<found[1].symbol, found[2].symbol>>

\* C10: update_file(p, []) leaves no symbol attributed to p, returns normally, and
\* leaves the index as it was when no symbol was attributed to p.
C10_UpdateFileEmpty ==
    [][(call'.op = "update_file" /\ call'.symbols = <<>>) =>
        /\ OfPath(GetSymbols(index', None), call'.file_path) = <<>>
        /\ NotOfPath(index', call'.file_path) = NotOfPath(index, call'.file_path)
        /\ OfPath(index, call'.file_path) = <<>> => index' = index
        /\ ret' = NoReturn]_vars

\* C10 witness: update_file(p, []) has run on an index that holds other symbols
C10_Witness ==
    /\ call.op = "update_file"
    /\ call.symbols = <<>>
    /\ index # <<>>
    /\ OfPath(index, call.file_path) = <<>>

\* C11: add_symbols(S) is additive: for every kind, get_symbols gives afterwards what
\* it gave before followed by the members of S of that kind in their order in S, so
\* no stored symbol is removed or moved.
C11_AddSymbolsAdditive ==
    [][call'.op = "add_symbols" =>
        /\ \A k \in KindSet \cup {None} :
            GetSymbols(index', k) = GetSymbols(index, k) \o GetSymbols(call'.symbols, k)
        /\ \A i \in 1..Len(index) : index'[i] = index[i]]_vars

\* C11 witness: add_symbols added two symbols to an index that already held a
\* symbol of the kind of one of them
C11_Witness ==
    /\ call.op = "add_symbols"
    /\ Len(call.symbols) = 2
    /\ Len(index) > Len(call.symbols)
    /\ SubSeq(index, Len(index) - 1, Len(index)) = call.symbols
    /\ call.symbols[1].kind # call.symbols[2].kind
    /\ \E i \in 1..(Len(index) - 2) : index[i].kind = call.symbols[2].kind

\* the cursor stands past the end of the line
CursorBeyondLine == call.op = "engine" /\ CallCharacter > Len(CallLine)

ExtractionFailed == call.op \in {"didOpen", "didChange"} /\ call.raised

\* C13: when the extraction tool fails during an open/change event, the handler
\* returns normally and the index then holds, for that file, its FILE symbol and
\* nothing else: no code symbol, neither new nor left from before.
C13_ExtractionFailure ==
    ExtractionFailed =>
        /\ ret = NoReturn
        /\ Len(OfPath(index, call.file_path)) = 1
        /\ Len(OfPath(GetSymbols(index, "FILE"), call.file_path)) = 1
        /\ \A k \in KindSet \ {"FILE"} : OfPath(GetSymbols(index, k), call.file_path) = <<>>
        /\ OfPath(index, call.file_path)[1].name
             = RelativeName(workspace_root, call.file_path)

\* C13 witness: the tool failed on a change of a file while the index holds the
\* other file with a code symbol
C13_Witness ==
    /\ ExtractionFailed
    /\ call.op = "didChange"
    /\ Len(OfPath(index, call.file_path)) = 1
    /\ Len(NotOfPath(index, call.file_path)) >= 2

\* the code point of a character of a sort key
CharCode(c) ==
    CASE c = "-" -> 45 [] c = "0" -> 48 [] c = "1" -> 49 [] c = "2" -> 50 [] c = "3" -> 51
      [] c = "4" -> 52 [] c = "5" -> 53 [] c = "6" -> 54 [] c = "7" -> 55 [] c = "8" -> 56
      [] c = "9" -> 57

\* s <= t in the lexicographic order of strings
RECURSIVE LexLeq(_, _)
LexLeq(s, t) ==
    IF s = <<>> THEN TRUE
    ELSE IF t = <<>> THEN FALSE
    ELSE IF CharCode(s[1]) # CharCode(t[1]) THEN CharCode(s[1]) < CharCode(t[1])
    ELSE LexLeq(Tail(s), Tail(t))

\* C14 as claimed: the sort key is monotonic in the score: of two candidates, the
\* one whose score is at least the other's has a sort key lexicographically less
\* than or equal to the other's, for all non-negative scores, those above 100
\* included.
C14_Original ==
    call.op = "to_completion_item" =>
        (ret.first.score >= ret.second.score
            => LexLeq(ret.first.item.sort_text, ret.second.item.sort_text))

\* an open/change event
IsEvent(c) == c.op \in {"didOpen", "didChange"}

\* C15: update_file is idempotent per path: an open/change event that hands
\* update_file the path and the symbols the event before it handed it leaves the
\* index as it was, in content and in the order get_symbols gives for every kind, so
\* repeated events for an unchanged file do not grow the index.
C15_UpdateFileIdempotent ==
    [][(/\ IsEvent(call) /\ IsEvent(call')
        /\ call'.file_path = call.file_path
        /\ call'.symbols = call.symbols)
       => /\ \A k \in KindSet \cup {None} : GetSymbols(index', k) = GetSymbols(index, k)
          /\ Len(index') = Len(index)]_vars

\* C15 witness: a change event for a file whose symbols (its FILE symbol and a code
\* symbol) the index already holds as handed over, next to the other file's
C15_Witness ==
    /\ call.op = "didChange"
    /\ ~call.raised
    /\ Len(call.symbols) >= 2
    /\ Len(index) >= Len(call.symbols) + 2
    /\ SubSeq(index, Len(index) - Len(call.symbols) + 1, Len(index)) = call.symbols
    /\ UpdateFile(index, call.file_path, call.symbols) = index

\* C16: in every interleaving of the initialize, didOpen, didChange and completion
\* handlers, a completion request is handled only while no other handler is in
\* progress, and it sees the index entirely after the mutation before it: all the
\* symbols of the scan after initialize, and for the file of an open/change event
\* exactly the symbols handed to update_file, never that file without symbols
\* between the removal and the addition.
C16_NoOverlap ==
    [][call'.op = "completion" =>
        /\ pc = "idle" /\ pc' = "idle"
        /\ index' = index
        /\ ret' = CompletionOf(index, config, call'.uri, call'.lines, call'.position)
        /\ IsEvent(call) => OfPath(index, call.file_path) = call.symbols
        /\ call.op = "initialize" => index = call.symbols /\ call.work = <<>>]_vars

\* C16 witness: a completion request handled between handlers and answered by the
\* '#' engine from an index that the scan and the events before it filled
C16_Witness ==
    /\ call.op = "completion"
    /\ pc = "idle"
    /\ ret.items # <<>>
    /\ Len(index) >= 3
    /\ ret.invoked = <<"#">>

\* whitespace lies between the last occurrence of c before the cursor and the cursor
SpaceAfter(c, line, character) ==
    LET between == Between(line, LastBefore(c, line, character), character)
    IN  \E j \in 1..Len(between) : between[j] \in Whitespace

\* C17: when the triggers of two engines precede the cursor, only the engine declared
\* first among them is called, wherever the triggers stand; so when whitespace lies
\* between its trigger and the cursor the response is empty, whatever a later
\* engine would have offered.
C17_DeclaredFirstOnly ==
    (Eligible /\ Cardinality(Firing(CallLine, CallCharacter)) >= 2) =>
        LET first == TriggerOrder[First(Firing(CallLine, CallCharacter))]
        IN  /\ ret.invoked = <<first>>
            /\ ret.items = GetCompletions(EngineOfTrigger(first), index, config,
                                          CallLine, CallCharacter)
            /\ SpaceAfter(first, CallLine, CallCharacter) => ret.items = <<>>

\* C17 witness: "@ ." with the cursor at the end and a CLASS symbol in the index: the
\* '.' engine, whose trigger is next to the cursor, would offer it, and the response
\* is empty because the '@' engine was called
C17_Witness ==
    /\ Eligible
    /\ CallLine = <<"@", " ", ".">>
    /\ CallCharacter = 3
    /\ GetCompletions(class_completion, index, config, CallLine, CallCharacter) # <<>>
    /\ ret.invoked = <<"@">>
    /\ ret.items = <<>>

\* the FILE symbols the index holds for the file at path p: those attributed to p
\* and those that carry its name
FileSymbolsOf(p) ==
    SelectSeq(GetSymbols(index, "FILE"),
              LAMBDA s : s.file_path = p \/ s.name = RelativeName(workspace_root, p))

\* C18: after the workspace scan and any sequence of open/change events the index
\* holds at most one FILE symbol per file; after an event on a file the index holds
\* for it exactly the symbols handed to update_file, the scan's being replaced.
C18_OneFileSymbolPerPath ==
    workspace_root # NoPath =>
        /\ \A p \in Paths : Len(FileSymbolsOf(p)) = 1
        /\ IsEvent(call) => OfPath(index, call.file_path) = call.symbols

\* C18 witness: every file was scanned and a change event on one of them, which
\* found a code symbol, has replaced what the index held for it
C18_Witness ==
    /\ workspace_root # NoPath
    /\ call.op = "didChange"
    /\ Len(call.symbols) = 2
    /\ OfPath(index, call.file_path) = call.symbols
    /\ Len(FileSymbolsOf(call.file_path)) = 1
    /\ Len(NotOfPath(index, call.file_path)) = 2

\* the members of symbols that match the query with at least min_fuzzy_score, each
\* with its score, ranked by descending score, equal scores in the order of symbols
RankedTogether(symbols, query) ==
    SortByScoreDesc(SelectSeq(Scored(symbols, query),
                              LAMBDA m : /\ IsMatch(query, m.symbol.name)
                                         /\ m.score >= config.min_fuzzy_score))

\* C19 as claimed: on a non-empty query get_completions gives the list obtained by
\* ranking all the matching symbols of the engine's kinds together, no kind being
\* truncated, equal scores in the order of insertion in the index, cut to
\* max_completion_items.
C19_Original ==
    NonEmptyQuery =>
        ret.matches = Take(RankedTogether(EligibleInserted(call.handler), ret.parse_query.query),
                           config.max_completion_items)

\* C19 amended: on a non-empty query get_completions gives the list obtained by
\* ranking all the matching symbols of the engine's kinds together, no kind being
\* truncated, cut to max_completion_items, where equal scores stand kind after kind
\* in the engine's configured order and, within a kind, in the order of insertion.
C19_GlobalRanking ==
    NonEmptyQuery =>
        ret.matches = Take(RankedTogether(EligibleByKind(call.handler), ret.parse_query.query),
                           config.max_completion_items)

\* C19 witness: the '#' engine on an index with more matching FUNCTION symbols than
\* max_completion_items and a matching METHOD symbol: the FUNCTION symbols, which
\* score higher, fill the list
C19_Witness ==
    /\ NonEmptyQuery
    /\ call.handler.trigger = "#"
    /\ Len(FuzzySearch(index, ret.parse_query.query, "METHOD", Len(index),
                       config.min_fuzzy_score)) >= 1
    /\ Len(FuzzySearch(index, ret.parse_query.query, "FUNCTION", Len(index),
                       config.min_fuzzy_score)) > config.max_completion_items
    /\ Len(ret.matches) = config.max_completion_items
    /\ \A i \in 1..Len(ret.matches) : ret.matches[i].symbol.kind = "FUNCTION"

\* the item shows the symbol
Shows(item, s) == item.label = s.name /\ item.detail = <<s.kind, s.file_path, s.line>>

Engines == Range(handlers)

\* none of the items is for a symbol of the file of the event in call that is not
\* among the symbols the event handed to update_file, and each is for a symbol of
\* the index
NoStaleItem(items) ==
    \A i \in 1..Len(items) :
        /\ \E s \in Range(index) : Shows(items[i], s)
        /\ items[i].detail[2] = call.file_path
             => \E s \in Range(call.symbols) : Shows(items[i], s)

\* what engine h returns for the line that is its trigger followed by the name of s
ItemsForName(h, cfg, s) ==
    GetCompletions(h, index, cfg, <<h.trigger>> \o s.name, 1 + Len(s.name))

\* a completion request handled right after an open/change event has returned
ServedAfterEvent == IsEvent(call) /\ pc = "idle" /\ call'.op = "completion"

IsRead(c) == c.op \in {"completion", "engine"}

\* C21: a completion request -- the server's completion handler on an eligible or a
\* non-eligible document, or should_trigger, parse_query and get_completions called
\* on an engine -- leaves the symbol index and the configuration as they were, and a
\* request that repeats the request just before it returns what that one returned
C21_ReadOnly ==
    [][IsRead(call') =>
            /\ index' = index
            /\ config' = config
            /\ ret'.repeated => ret'.value = ret'.previous]_vars

\* an eligible document's request has been made twice in a row, on an index that holds
\* more symbols than a response may carry, and has returned items
C21_Witness ==
    /\ call.op = "completion"
    /\ IsTxt(call.uri)
    /\ ret.repeated
    /\ ret.value.items # <<>>
    /\ Len(index) > config.max_completion_items

===========================================================================
